---- MODULE Spec2Model ----
(***************************************************************************)
(* Model of the Openplanet grammar tooling:                                *)
(*   scripts/generate-openplanet-grammar.mjs  (the generator, one run)     *)
(*   scripts/watch-openplanet-grammar.mjs     (watch mode)                 *)
(*   extension.js                             (editor-side refresh)        *)
(* Strings that the code inspects character by character (symbols,         *)
(* alternations, chunks) are sequences of one-character strings.           *)
(***************************************************************************)
EXTENDS Integers, Sequences, FiniteSets, TLC

VARIABLES
  \* ---- regex builder driver (makeAlternation / chunkAlternation) ----
  rxpc,        \* "input" | "alt" | "done"
  rxValues,    \* the symbol set handed to the builders
  rxMax,       \* maxChunkLength handed to chunkAlternation
  rxAlt,       \* result of makeAlternation(rxValues)
  rxChunks,    \* result of chunkAlternation(rxValues, rxMax)
  \* ---- watch mode (watch-openplanet-grammar.mjs) ----
  wpc,         \* "main" | "watching" | "noDirs" | "stopped"
  wDirs,       \* installDirs: the existing directories being watched
  pending,     \* let pending
  timer,       \* let timer: "null", "armed" (timeout outstanding) or "fired"
  timerReason, \* the reason captured by the outstanding timeout
  running,     \* let running
  runReason,   \* reason of the most recent spawn
  wChildren,   \* generator children spawned and not yet exited
  wSpawned,    \* children spawned so far
  wExited,     \* exit events handled so far
  wReqDuring,  \* runGenerator calls made while the current child was in flight
  wCoalesced,  \* value of wReqDuring at the most recent exit event
  wChanges,    \* watched-file change events delivered so far
  wLastCode,   \* exit code of the most recent exit event
  \* ---- editor extension (extension.js) ----
  eActivated,            \* activate() has run
  sessionRefreshStarted, \* let sessionRefreshStarted
  cfgRefreshOnStart,     \* setting refreshSymbolsOnSessionStart
  cfgShowButton,         \* setting showRefreshButton
  statusBarItem,         \* let statusBarItem: TRUE when an item exists
  eChildren,             \* reasons of the generator children not yet closed
  eCommands,             \* refresh-command invocations so far
  eLastMessage,          \* the last message shown to the user
  \* ---- one generator process after another (generate-openplanet-grammar.mjs) ----
  gpc,          \* position in main(): the step to run next, "done" or "failed"
  file,         \* the grammar file on disk
  sources,      \* the metadata sources: resolved paths, existing files, contents
  grammar,      \* const grammar: the parsed document being patched
  symbols,      \* { namespaces, types, globalFunctions }
  namespaceAlternation,
  typeChunks,
  globalFunctionAlternation,
  gExit,        \* process exit code, "none" while running
  gError,       \* message class of the uncaught error, "" when none
  gRuns,        \* generator processes started so far
  gOutputs,     \* what each finished run wrote, in order
  gFileAtStart, \* the file as it was when the current run started
  gWrites,      \* writeFileSync calls of the current run
  gTrail,       \* the steps of main() completed by the current run
  \* ---- one call of a function of the generator on given arguments ----
  fnpc,         \* "call" before the call, "returned" after it, "idle" when unused
  fnIn,         \* the arguments (and the files and environment the call reads)
  fnOut         \* the value returned or the error thrown

fnVars == <<fnpc, fnIn, fnOut>>
rxVars == <<rxpc, rxValues, rxMax, rxAlt, rxChunks>>
wVars == <<wpc, wDirs, pending, timer, timerReason, running, runReason, wChildren,
           wSpawned, wExited, wReqDuring, wCoalesced, wChanges, wLastCode>>
eVars == <<eActivated, sessionRefreshStarted, cfgRefreshOnStart, cfgShowButton,
           statusBarItem, eChildren, eCommands, eLastMessage>>
gVars == <<gpc, file, sources, grammar, symbols, namespaceAlternation, typeChunks,
           globalFunctionAlternation, gExit, gError, gRuns, gOutputs, gFileAtStart,
           gWrites, gTrail>>

(***************************************************************************)
(* Bounds of the model.                                                    *)
(***************************************************************************)
MaxSymLen == 2
MaxSyms == 3
MaxChunkLen == 6
MaxChanges == 3
MaxCommands == 3
MaxListLen == 3
MaxRuns == 2

(***************************************************************************)
(* Generic sequence helpers.                                               *)
(***************************************************************************)
SeqsUpTo(S, n) == UNION {[1..k -> S] : k \in 0..n}

RECURSIVE Flatten(_)
Flatten(ss) == IF ss = <<>> THEN <<>> ELSE Head(ss) \o Flatten(Tail(ss))

Range(s) == {s[i] : i \in 1..Len(s)}

\* Array.prototype.splice(i, 1), positions counted from 1
RemoveAt(s, i) == SubSeq(s, 1, i - 1) \o SubSeq(s, i + 1, Len(s))

\* Array.prototype.splice(i, 0, ...items): items go in before position i
InsertAt(s, i, items) == SubSeq(s, 1, i - 1) \o items \o SubSeq(s, i, Len(s))

\* Array.prototype.findIndex, positions counted from 1; 0 when no element
\* passes the test (JavaScript's -1)
FindIndex(s, Test(_)) ==
  IF \E i \in 1..Len(s) : Test(s[i])
  THEN CHOOSE i \in 1..Len(s) : Test(s[i]) /\ \A j \in 1..(i - 1) : ~Test(s[j])
  ELSE 0

\* String.prototype.startsWith
startsWith(str, prefix) ==
  Len(str) >= Len(prefix) /\ SubSeq(str, 1, Len(prefix)) = prefix

\* Array.prototype.join(sep)
RECURSIVE Join(_, _)
Join(items, sep) ==
  IF items = <<>> THEN <<>>
  ELSE IF Len(items) = 1 THEN items[1]
  ELSE items[1] \o sep \o Join(Tail(items), sep)

(***************************************************************************)
(* Characters.  Chars is the alphabet symbols are drawn from in the regex  *)
(* builder driver: a letter and one regex metacharacter (the alternation   *)
(* operator itself, the one whose escaping the chunks depend on).          *)
(***************************************************************************)
Chars == {"a", "|"}

\* the character class of escapeRegex: [.*+?^${}()|[\]\\]
MetaChars == {".", "*", "+", "?", "^", "$", "{", "}", "(", ")", "|", "[", "]", "\\"}

\* text.replace(/[.*+?^${}()|[\]\\]/g, "\\$&")
RECURSIVE escapeRegex(_)
escapeRegex(text) ==
  IF text = <<>> THEN <<>>
  ELSE (IF Head(text) \in MetaChars THEN <<"\\", Head(text)>> ELSE <<Head(text)>>)
       \o escapeRegex(Tail(text))

(***************************************************************************)
(* a.localeCompare(b): the default collation compares the letters first    *)
(* (punctuation before digits before letters, case ignored) and only then  *)
(* the case (lower before upper).                                          *)
(***************************************************************************)
CollationOrder ==
  <<"_", ":", ".", "\\", "|", "0", "1", "2", "3", "4", "5", "6", "7", "8", "9",
    "a", "b", "c", "d", "e", "f", "g", "h", "i", "j", "k", "l", "m",
    "n", "o", "p", "q", "r", "s", "t", "u", "v", "w", "x", "y", "z">>
UpperOf ==
  [c \in {"a","b","c","d","e","f","g","h","i","j","k","l","m",
          "n","o","p","q","r","s","t","u","v","w","x","y","z"} |->
     CASE c = "a" -> "A" [] c = "b" -> "B" [] c = "c" -> "C" [] c = "d" -> "D"
       [] c = "e" -> "E" [] c = "f" -> "F" [] c = "g" -> "G" [] c = "h" -> "H"
       [] c = "i" -> "I" [] c = "j" -> "J" [] c = "k" -> "K" [] c = "l" -> "L"
       [] c = "m" -> "M" [] c = "n" -> "N" [] c = "o" -> "O" [] c = "p" -> "P"
       [] c = "q" -> "Q" [] c = "r" -> "R" [] c = "s" -> "S" [] c = "t" -> "T"
       [] c = "u" -> "U" [] c = "v" -> "V" [] c = "w" -> "W" [] c = "x" -> "X"
       [] c = "y" -> "Y" [] c = "z" -> "Z"]
IsUpper(c) == \E l \in DOMAIN UpperOf : UpperOf[l] = c
ToLower(c) == IF IsUpper(c) THEN CHOOSE l \in DOMAIN UpperOf : UpperOf[l] = c ELSE c
PrimaryWeight(c) == CHOOSE i \in 1..Len(CollationOrder) : CollationOrder[i] = ToLower(c)
TertiaryWeight(c) == IF IsUpper(c) THEN 1 ELSE 0

\* lexicographic comparison of two sequences of numbers: -1, 0 or 1
RECURSIVE LexCompare(_, _)
LexCompare(x, y) ==
  IF x = <<>> /\ y = <<>> THEN 0
  ELSE IF x = <<>> THEN -1
  ELSE IF y = <<>> THEN 1
  ELSE IF Head(x) < Head(y) THEN -1
  ELSE IF Head(x) > Head(y) THEN 1
  ELSE LexCompare(Tail(x), Tail(y))

localeCompare(a, b) ==
  LET pa == [i \in 1..Len(a) |-> PrimaryWeight(a[i])]
      pb == [i \in 1..Len(b) |-> PrimaryWeight(b[i])]
      ta == [i \in 1..Len(a) |-> TertiaryWeight(a[i])]
      tb == [i \in 1..Len(b) |-> TertiaryWeight(b[i])]
      p  == LexCompare(pa, pb)
  IN IF p # 0 THEN p ELSE LexCompare(ta, tb)

\* the comparator of sortForAlternation: negative when a sorts before b
AlternationCompare(a, b) ==
  IF Len(b) # Len(a) THEN Len(b) - Len(a) ELSE localeCompare(a, b)

\* the same sort with the length test reversed (shortest first)
RECURSIVE sortShortestFirst(_)
sortShortestFirst(values) ==
  IF values = {} THEN <<>>
  ELSE LET first == CHOOSE x \in values :
                      \A y \in values \ {x} :
                        (IF Len(x) # Len(y) THEN Len(x) - Len(y) ELSE localeCompare(x, y)) < 0
       IN <<first>> \o sortShortestFirst(values \ {first})

\* [...values].sort(comparator): the comparator is a strict total order on
\* the distinct strings of a Set, so the sorted array is the one permutation
\* in which every element compares below its successors.
RECURSIVE sortForAlternation(_)
sortForAlternation(values) ==
  IF values = {} THEN <<>>
  ELSE LET first == CHOOSE x \in values :
                      \A y \in values \ {x} : AlternationCompare(x, y) < 0
       IN <<first>> \o sortForAlternation(values \ {first})

MapEscape(items) == [i \in 1..Len(items) |-> escapeRegex(items[i])]

NeverMatch == <<"(", "?", "!", ")">>

makeAlternationNoPlaceholder(values) ==
  Join(MapEscape(sortForAlternation(values)), <<"|">>)

makeAlternation(values) ==
  LET sorted == sortForAlternation(values)
  IN IF Len(sorted) = 0 THEN NeverMatch
     ELSE Join(MapEscape(sorted), <<"|">>)

\* the for-loop of chunkAlternation from item i on; current holds the items
\* of the open chunk, currentLength its joined length
RECURSIVE ChunkLoopNoSeparator(_, _, _, _, _, _)
ChunkLoopNoSeparator(items, i, chunks, current, currentLength, maxChunkLength) ==
  IF i > Len(items)
  THEN IF Len(current) > 0 THEN Append(chunks, Join(current, <<"|">>)) ELSE chunks
  ELSE LET item == items[i]
           itemLength == Len(item)
       IN IF Len(current) > 0 /\ currentLength + itemLength > maxChunkLength
          THEN ChunkLoopNoSeparator(items, i + 1, Append(chunks, Join(current, <<"|">>)),
                                    <<item>>, Len(item), maxChunkLength)
          ELSE ChunkLoopNoSeparator(items, i + 1, chunks, Append(current, item),
                                    currentLength + itemLength, maxChunkLength)

RECURSIVE ChunkLoop(_, _, _, _, _, _)
ChunkLoop(items, i, chunks, current, currentLength, maxChunkLength) ==
  IF i > Len(items)
  THEN IF Len(current) > 0 THEN Append(chunks, Join(current, <<"|">>)) ELSE chunks
  ELSE LET item == items[i]
           itemLength == Len(item) + (IF Len(current) > 0 THEN 1 ELSE 0)
       IN IF Len(current) > 0 /\ currentLength + itemLength > maxChunkLength
          THEN ChunkLoop(items, i + 1, Append(chunks, Join(current, <<"|">>)),
                         <<item>>, Len(item), maxChunkLength)
          ELSE ChunkLoop(items, i + 1, chunks, Append(current, item),
                         currentLength + itemLength, maxChunkLength)

chunkAlternationNoSeparator(values, maxChunkLength) ==
  ChunkLoopNoSeparator(MapEscape(sortForAlternation(values)), 1, <<>>, <<>>, 0, maxChunkLength)

chunkAlternation(values, maxChunkLength) ==
  ChunkLoop(MapEscape(sortForAlternation(values)), 1, <<>>, <<>>, 0, maxChunkLength)

DefaultMaxChunkLength == 18000

(***************************************************************************)
(* Reading an alternation back, as a regex engine does: the alternatives   *)
(* are separated by the unescaped "|", and a backslash makes the next      *)
(* character literal.  Used only to state properties of the built strings. *)
(***************************************************************************)
RECURSIVE ReadAlternatives(_, _, _)
ReadAlternatives(str, done, cur) ==
  IF str = <<>> THEN Append(done, cur)
  ELSE IF Head(str) = "\\" /\ Len(str) >= 2
       THEN ReadAlternatives(Tail(Tail(str)), done, Append(cur, str[2]))
  ELSE IF Head(str) = "|"
       THEN ReadAlternatives(Tail(str), Append(done, cur), <<>>)
  ELSE ReadAlternatives(Tail(str), done, Append(cur, Head(str)))

Alternatives(str) == ReadAlternatives(str, <<>>, <<>>)

IsPrefix(a, b) == Len(a) <= Len(b) /\ SubSeq(b, 1, Len(a)) = a

(***************************************************************************)
(* Regex builder driver: the two builders applied to a symbol set.         *)
(***************************************************************************)
Symbols == SeqsUpTo(Chars, MaxSymLen) \ {<<>>}
SymbolSets == {S \in SUBSET Symbols : Cardinality(S) <= MaxSyms}

RxIdle ==
  /\ rxpc = "idle"
  /\ rxValues = {}
  /\ rxMax = 0
  /\ rxAlt = <<>>
  /\ rxChunks = <<>>

RxInit ==
  /\ rxpc = "input"
  /\ rxValues \in SymbolSets
  /\ rxMax \in 1..MaxChunkLen
  /\ rxAlt = <<>>
  /\ rxChunks = <<>>

ApplyMakeAlternation ==
  /\ rxpc = "input"
  /\ rxAlt' = makeAlternation(rxValues)
  /\ rxpc' = "alt"
  /\ UNCHANGED <<rxValues, rxMax, rxChunks, wVars, eVars, gVars, fnVars>>

ApplyChunkAlternation ==
  /\ rxpc = "alt"
  /\ rxChunks' = chunkAlternation(rxValues, rxMax)
  /\ rxpc' = "done"
  /\ UNCHANGED <<rxValues, rxMax, rxAlt, wVars, eVars, gVars, fnVars>>

RxNext == ApplyMakeAlternation \/ ApplyChunkAlternation

(***************************************************************************)
(* Watch mode.                                                             *)
(***************************************************************************)
WatchDirNames == {"OpenplanetNext", "OpenplanetTurbo"}
\* what fs.watch hands to the callback as filename
WatchFilenames == {"null", "OpenplanetCore.json", "Openplanet.h", "notes.txt"}
\* watchedFileRx
watchedFile(filename) == filename \in {"OpenplanetCore.json", "Openplanet.h"}

WIdle ==
  /\ wpc = "idle" /\ wDirs = {} /\ pending = FALSE /\ timer = "null"
  /\ timerReason = "none" /\ running = FALSE /\ runReason = "none"
  /\ wChildren = 0 /\ wSpawned = 0 /\ wExited = 0 /\ wReqDuring = 0
  /\ wCoalesced = 0 /\ wChanges = 0 /\ wLastCode = "none"

WInit ==
  /\ wpc = "main" /\ wDirs \in SUBSET WatchDirNames
  /\ pending = FALSE /\ timer = "null"
  /\ timerReason = "none" /\ running = FALSE /\ runReason = "none"
  /\ wChildren = 0 /\ wSpawned = 0 /\ wExited = 0 /\ wReqDuring = 0
  /\ wCoalesced = 0 /\ wChanges = 0 /\ wLastCode = "none"

\* spawn(process.execPath, generatorArgs, ...) and the bookkeeping around it
SpawnChild(reason) ==
  /\ running' = TRUE
  /\ runReason' = reason
  /\ wChildren' = wChildren + 1
  /\ wSpawned' = wSpawned + 1
  /\ wReqDuring' = 0

\* runGenerator without the "if (running)" test
runGeneratorUnguarded(reason) ==
  /\ SpawnChild(reason)
  /\ UNCHANGED pending

\* function runGenerator(reason), up to the registration of the exit handler
runGenerator(reason) ==
  IF running
  THEN /\ pending' = TRUE
       /\ wReqDuring' = wReqDuring + (IF wChildren > 0 THEN 1 ELSE 0)
       /\ UNCHANGED <<running, runReason, wChildren, wSpawned>>
  ELSE /\ SpawnChild(reason)
       /\ UNCHANGED pending

\* main(): no directory to watch ends the process, otherwise the watchers
\* are registered and the startup run is requested
WatchMain ==
  /\ wpc = "main"
  /\ IF wDirs = {}
     THEN /\ wpc' = "noDirs"
          /\ UNCHANGED <<pending, running, runReason, wChildren, wSpawned, wReqDuring>>
     ELSE /\ wpc' = "watching"
          /\ runGenerator("startup")
  /\ UNCHANGED <<wDirs, timer, timerReason, wExited, wCoalesced, wChanges, wLastCode>>
  /\ UNCHANGED <<rxVars, eVars, gVars, fnVars>>

\* the fs.watch callback, with schedule(reason) inlined
FileChange ==
  /\ wpc = "watching"
  /\ wChanges < MaxChanges
  /\ \E dir \in wDirs, filename \in WatchFilenames :
       /\ wChanges' = wChanges + 1
       /\ IF filename = "null" \/ ~watchedFile(filename)
          THEN UNCHANGED <<timer, timerReason>>
          ELSE /\ timer' = "armed"
               /\ timerReason' = <<dir, filename>>
  /\ UNCHANGED <<wpc, wDirs, pending, running, runReason, wChildren, wSpawned,
                 wExited, wReqDuring, wCoalesced, wLastCode>>
  /\ UNCHANGED <<rxVars, eVars, gVars, fnVars>>

\* the timeout set by schedule fires: () => runGenerator(reason)
TimerFire ==
  /\ wpc = "watching"
  /\ timer = "armed"
  /\ timer' = "fired"
  /\ runGenerator(timerReason)
  /\ UNCHANGED <<wpc, wDirs, timerReason, wExited, wCoalesced, wChanges, wLastCode>>
  /\ UNCHANGED <<rxVars, eVars, gVars, fnVars>>

\* the exit handler that leaves pending set
ChildExitKeepPending ==
  /\ wpc = "watching"
  /\ wChildren > 0
  /\ \E code \in {0, 1} : wLastCode' = code
  /\ wExited' = wExited + 1
  /\ wCoalesced' = wReqDuring
  /\ IF pending
     THEN /\ running' = TRUE
          /\ runReason' = "queued change"
          /\ wChildren' = wChildren
          /\ wSpawned' = wSpawned + 1
          /\ wReqDuring' = 0
     ELSE /\ running' = FALSE
          /\ wChildren' = wChildren - 1
          /\ UNCHANGED <<runReason, wSpawned, wReqDuring>>
  /\ UNCHANGED <<wpc, wDirs, pending, timer, timerReason, wChanges>>
  /\ UNCHANGED <<rxVars, eVars, gVars, fnVars>>

\* the exit handler that clears pending without starting the queued run
ChildExitForgetsPending ==
  /\ wpc = "watching"
  /\ wChildren > 0
  /\ \E code \in {0, 1} : wLastCode' = code
  /\ wExited' = wExited + 1
  /\ wCoalesced' = wReqDuring
  /\ pending' = FALSE
  /\ running' = FALSE
  /\ wChildren' = wChildren - 1
  /\ UNCHANGED <<runReason, wSpawned, wReqDuring>>
  /\ UNCHANGED <<wpc, wDirs, timer, timerReason, wChanges>>
  /\ UNCHANGED <<rxVars, eVars, gVars, fnVars>>

\* child.on("exit", (code) => { running = false; ...; if (pending) {...} })
ChildExit ==
  /\ wpc = "watching"
  /\ wChildren > 0
  /\ \E code \in {0, 1} : wLastCode' = code
  /\ wExited' = wExited + 1
  /\ wCoalesced' = wReqDuring
  /\ IF pending
     THEN /\ pending' = FALSE
          \* runGenerator("queued change") with running just set to false
          /\ running' = TRUE
          /\ runReason' = "queued change"
          /\ wChildren' = (wChildren - 1) + 1
          /\ wSpawned' = wSpawned + 1
          /\ wReqDuring' = 0
     ELSE /\ running' = FALSE
          /\ wChildren' = wChildren - 1
          /\ UNCHANGED <<pending, runReason, wSpawned, wReqDuring>>
  /\ UNCHANGED <<wpc, wDirs, timer, timerReason, wChanges>>
  /\ UNCHANGED <<rxVars, eVars, gVars, fnVars>>

\* process.on("SIGINT"): the watchers are closed and the process exits
Sigint ==
  /\ wpc = "watching"
  /\ wpc' = "stopped"
  /\ UNCHANGED <<wDirs, pending, timer, timerReason, running, runReason, wChildren,
                 wSpawned, wExited, wReqDuring, wCoalesced, wChanges, wLastCode>>
  /\ UNCHANGED <<rxVars, eVars, gVars, fnVars>>

WNext == WatchMain \/ FileChange \/ TimerFire \/ ChildExit \/ Sigint

(***************************************************************************)
(* Editor extension.                                                       *)
(***************************************************************************)
EIdle ==
  /\ eActivated = FALSE /\ sessionRefreshStarted = FALSE
  /\ cfgRefreshOnStart = FALSE /\ cfgShowButton = FALSE /\ statusBarItem = FALSE
  /\ eChildren = <<>> /\ eCommands = 0 /\ eLastMessage = "idle"

EInit ==
  /\ eActivated = FALSE /\ sessionRefreshStarted = FALSE
  /\ cfgRefreshOnStart \in BOOLEAN /\ cfgShowButton \in BOOLEAN
  /\ statusBarItem = FALSE
  /\ eChildren = <<>> /\ eCommands = 0 /\ eLastMessage = "none"

\* runGenerator(extensionPath, opts) up to cp.spawn: one more child
ExtSpawn(reason) == eChildren' = Append(eChildren, reason)

\* activate(context): registers the command, builds the status bar, and
\* starts the session refresh once
Activate ==
  /\ ~eActivated
  /\ eActivated' = TRUE
  /\ statusBarItem' = cfgShowButton
  /\ IF ~sessionRefreshStarted /\ cfgRefreshOnStart
     THEN /\ sessionRefreshStarted' = TRUE
          /\ ExtSpawn("session start")
     ELSE UNCHANGED <<sessionRefreshStarted, eChildren>>
  /\ UNCHANGED <<cfgRefreshOnStart, cfgShowButton, eCommands, eLastMessage>>
  /\ UNCHANGED <<rxVars, wVars, gVars, fnVars>>

\* the REFRESH_COMMAND handler (command palette or status-bar button)
RefreshCommand ==
  /\ eActivated
  /\ eCommands < MaxCommands
  /\ eCommands' = eCommands + 1
  /\ ExtSpawn("manual")
  /\ UNCHANGED <<eActivated, sessionRefreshStarted, cfgRefreshOnStart, cfgShowButton,
                 statusBarItem, eLastMessage>>
  /\ UNCHANGED <<rxVars, wVars, gVars, fnVars>>

\* child.on("close", (code) => ...)
ChildClose ==
  /\ \E i \in 1..Len(eChildren), code \in {0, 1} :
       /\ eChildren' = RemoveAt(eChildren, i)
       /\ eLastMessage' =
            IF code = 0
            THEN (IF eChildren[i] = "manual" THEN "reload prompt" ELSE eLastMessage)
            ELSE "error"
  /\ UNCHANGED <<eActivated, sessionRefreshStarted, cfgRefreshOnStart, cfgShowButton,
                 statusBarItem, eCommands>>
  /\ UNCHANGED <<rxVars, wVars, gVars, fnVars>>

\* child.on("error", (err) => ...): the child could not be spawned
ChildError ==
  /\ \E i \in 1..Len(eChildren) :
       /\ eChildren' = RemoveAt(eChildren, i)
       /\ eLastMessage' = "error"
  /\ UNCHANGED <<eActivated, sessionRefreshStarted, cfgRefreshOnStart, cfgShowButton,
                 statusBarItem, eCommands>>
  /\ UNCHANGED <<rxVars, wVars, gVars, fnVars>>

\* onDidChangeConfiguration for the extension's section: the button setting
\* is toggled and ensureStatusBar rebuilds the item
ConfigChange ==
  /\ eActivated
  /\ cfgShowButton' = ~cfgShowButton
  /\ statusBarItem' = cfgShowButton'
  /\ UNCHANGED <<eActivated, sessionRefreshStarted, cfgRefreshOnStart, eChildren,
                 eCommands, eLastMessage>>
  /\ UNCHANGED <<rxVars, wVars, gVars, fnVars>>

ENext == Activate \/ RefreshCommand \/ ChildClose \/ ChildError \/ ConfigChange

(***************************************************************************)
(* The grammar document.  A pattern node keeps the fields the generator    *)
(* reads or writes; a field the JSON object does not have is "" (name,     *)
(* captures, include) or <<>> (match, patterns).  A match is the pair of   *)
(* the regex template it was built from and the alternation spliced into   *)
(* that template; captures is the tag of a capture table.                  *)
(***************************************************************************)
Node(name, match, captures) ==
  [name |-> name, match |-> match, captures |-> captures, include |-> "", patterns |-> <<>>]
Include(ref) ==
  [name |-> "", match |-> <<>>, captures |-> "", include |-> ref, patterns |-> <<>>]
Group(children) ==
  [name |-> "", match |-> <<>>, captures |-> "", include |-> "", patterns |-> children]

HandMatch == <<"hand-written", <<>>>>
Hand(name) == Node(name, HandMatch, "hand")

\* the names findPatternByName is asked for
FunctionDefinitionBuiltin == "meta.function.definition.builtin.angelscript"
VariableDefinitionConstBuiltin == "meta.variable.definition.const.builtin.angelscript"
VariableDefinitionBuiltin == "meta.variable.definition.builtin.angelscript"
FunctionReferenceWrapperBuiltin == "meta.function.reference.wrapper.builtin.angelscript"
FunctionReferenceBuiltin == "meta.function.reference.builtin.angelscript"
ScopeFunctionCallBuiltin == "meta.scope-resolution.function-call.builtin.angelscript"
ScopeMemberBuiltin == "meta.scope-resolution.member.builtin.angelscript"
ConstructorCall == "meta.constructor.call.angelscript"

\* the names the generator owns
DeepFunctionName == "meta.scope-resolution.function-call.deep-builtin.angelscript"
DeepMemberName == "meta.scope-resolution.member.deep-builtin.angelscript"
OpenplanetTypeName == "support.type.openplanet.angelscript"
BuiltinFunctionName == "support.function.builtin.openplanet.angelscript"
OpenplanetVarPrefix == "meta.variable.definition.openplanet.angelscript"
OpenplanetConstVarPrefix == "meta.variable.definition.const.openplanet.angelscript"

\* the anchors
TypeReferenceAnchor == "storage.modifier.reference.angelscript"
GenericCallAnchor == "entity.name.function.angelscript"
ConstVarAnchor == "meta.variable.definition.const.angelscript"
VarAnchor == "meta.variable.definition.angelscript"
TypeIdentifierName == "entity.name.type.angelscript"

\* Object.values(grammar.repository), in the order of the keys in the file
RepositoryOrder ==
  <<"memberAccess", "types", "functionCalls", "declarations", "typeIdentifiers", "misc">>

\* walkPatterns over an array: the nodes handed to the callback (name and
\* match both strings), each before the nodes below it
RECURSIVE WalkList(_)
WalkList(list) ==
  IF list = <<>> THEN <<>>
  ELSE LET node == Head(list)
       IN (IF node.name # "" /\ node.match # <<>> THEN <<node>> ELSE <<>>)
          \o WalkList(node.patterns) \o WalkList(Tail(list))

RECURSIVE WalkKeys(_, _)
WalkKeys(repository, keys) ==
  IF keys = <<>> THEN <<>>
  ELSE (IF Head(keys) \in DOMAIN repository
        THEN WalkList(repository[Head(keys)].patterns) ELSE <<>>)
       \o WalkKeys(repository, Tail(keys))

\* walkPatterns(grammar.repository, cb): the callback's nodes in visit order
walkPatterns(repository) == WalkKeys(repository, RepositoryOrder)

\* the walk stops at the first node under the name
findPatternByNameFirstHit(g, name) ==
  LET hits == SelectSeq(walkPatterns(g.repository), LAMBDA p : p.name = name)
  IN IF Len(hits) = 0 THEN "not found" ELSE "found"

\* findPatternByName: "found", or the error it throws
findPatternByName(g, name) ==
  LET hits == SelectSeq(walkPatterns(g.repository), LAMBDA p : p.name = name)
  IN IF Len(hits) > 1 THEN "found multiple"
     ELSE IF Len(hits) = 0 THEN "not found"
     ELSE "found"

\* findPatternByName(grammar, name).match = match: the one node the walk
\* finds under that name gets the new match, every other field is kept
RECURSIVE SetMatchInList(_, _, _)
SetMatchInList(list, name, match) ==
  [i \in 1..Len(list) |->
     LET node == list[i]
         below == SetMatchInList(node.patterns, name, match)
     IN IF node.name = name /\ node.match # <<>>
        THEN [node EXCEPT !.match = match, !.patterns = below]
        ELSE [node EXCEPT !.patterns = below]]

SetMatchByName(g, name, match) ==
  [g EXCEPT !.repository =
     [k \in DOMAIN g.repository |->
        [patterns |-> SetMatchInList(g.repository[k].patterns, name, match)]]]

\* the result of a patch step: the document, and the error thrown ("" if none)
Patched(g) == [grammar |-> g, error |-> ""]
Thrown(g, error) == [grammar |-> g, error |-> error]

\* the seven assignments of setNamespaceMatches, in order
NamespaceTargets ==
  <<FunctionDefinitionBuiltin, VariableDefinitionConstBuiltin, VariableDefinitionBuiltin,
    FunctionReferenceWrapperBuiltin, FunctionReferenceBuiltin, ScopeFunctionCallBuiltin,
    ScopeMemberBuiltin>>

RECURSIVE SetTargetsFrom(_, _, _)
SetTargetsFrom(g, i, alternation) ==
  IF i > Len(NamespaceTargets) THEN Patched(g)
  ELSE LET name == NamespaceTargets[i]
           found == findPatternByName(g, name)
       IN IF found # "found" THEN Thrown(g, found)
          ELSE SetTargetsFrom(SetMatchByName(g, name, <<name, alternation>>), i + 1, alternation)

setNamespaceMatches(g, alternation) == SetTargetsFrom(g, 1, alternation)

\* grammar.repository.<key>.patterns of a missing key: a TypeError
HasList(g, key) == key \in DOMAIN g.repository
WithList(g, key, list) == [g EXCEPT !.repository[key] = [patterns |-> list]]

\* functionPattern and memberPattern of upsertDeepBuiltinScopePatterns
DeepBuiltinNodes(alternation) ==
  <<Node(DeepFunctionName, <<DeepFunctionName, alternation>>, "deep function captures"),
    Node(DeepMemberName, <<DeepMemberName, alternation>>, "deep member captures")>>

\* lines 416-425 on memberAccess.patterns
UpsertDeepInList(patterns, alternation) ==
  LET existingFunctionIndex == FindIndex(patterns, LAMBDA p : p.name = DeepFunctionName)
      p1 == IF existingFunctionIndex >= 1 THEN RemoveAt(patterns, existingFunctionIndex)
            ELSE patterns
      existingMemberIndex == FindIndex(p1, LAMBDA p : p.name = DeepMemberName)
      p2 == IF existingMemberIndex >= 1 THEN RemoveAt(p1, existingMemberIndex) ELSE p1
      singleBuiltinFunctionIndex == FindIndex(p2, LAMBDA p : p.name = ScopeFunctionCallBuiltin)
      insertIndex == IF singleBuiltinFunctionIndex >= 1 THEN singleBuiltinFunctionIndex ELSE 1
  IN InsertAt(p2, insertIndex, DeepBuiltinNodes(alternation))

upsertDeepBuiltinScopePatterns(g, alternation) ==
  IF ~HasList(g, "memberAccess") THEN Thrown(g, "TypeError")
  ELSE Patched(WithList(g, "memberAccess",
                        UpsertDeepInList(g.repository["memberAccess"].patterns, alternation)))

\* typeChunks.map((chunk) => ({ name, match }))
KnownTypeNodes(chunks) ==
  [i \in 1..Len(chunks) |-> Node(OpenplanetTypeName, <<OpenplanetTypeName, chunks[i]>>, "")]

\* splice(insertAt, 1, ...generated): the node at the insertion point is
\* overwritten by the first generated node
UpsertTypesInListOverwriting(patterns, chunks) ==
  LET kept == SelectSeq(patterns, LAMBDA p : p.name # OpenplanetTypeName)
      referenceIndex == FindIndex(kept, LAMBDA p : p.name = TypeReferenceAnchor)
      insertAt == IF referenceIndex >= 1 THEN referenceIndex ELSE Len(kept) + 1
  IN InsertAt(RemoveAt(kept, insertAt), insertAt, KnownTypeNodes(chunks))

UpsertTypesInList(patterns, chunks) ==
  LET kept == SelectSeq(patterns, LAMBDA p : p.name # OpenplanetTypeName)
      referenceIndex == FindIndex(kept, LAMBDA p : p.name = TypeReferenceAnchor)
      insertAt == IF referenceIndex >= 1 THEN referenceIndex ELSE Len(kept) + 1
  IN InsertAt(kept, insertAt, KnownTypeNodes(chunks))

upsertKnownTypePatterns(g, chunks) ==
  IF ~HasList(g, "types") THEN Thrown(g, "TypeError")
  ELSE Patched(WithList(g, "types", UpsertTypesInList(g.repository["types"].patterns, chunks)))

BuiltinFunctionNode(alternation) ==
  Node(BuiltinFunctionName, <<BuiltinFunctionName, alternation>>, "")

UpsertFunctionsInList(patterns, alternation) ==
  LET existingIndex == FindIndex(patterns, LAMBDA p : p.name = BuiltinFunctionName)
      genericCallIndex == FindIndex(patterns, LAMBDA p : p.name = GenericCallAnchor)
      insertIndex == IF genericCallIndex >= 1 THEN genericCallIndex ELSE Len(patterns) + 1
  IN IF existingIndex >= 1
     THEN [patterns EXCEPT ![existingIndex] = BuiltinFunctionNode(alternation)]
     ELSE InsertAt(patterns, insertIndex, <<BuiltinFunctionNode(alternation)>>)

upsertBuiltinGlobalFunctions(g, alternation) ==
  IF ~HasList(g, "functionCalls") THEN Thrown(g, "TypeError")
  ELSE Patched(WithList(g, "functionCalls",
                        UpsertFunctionsInList(g.repository["functionCalls"].patterns, alternation)))

isOpenplanetVarPattern(p) ==
  /\ p.name # ""
  /\ \/ startsWith(p.name, OpenplanetVarPrefix)
     \/ startsWith(p.name, OpenplanetConstVarPrefix)

\* the name of chunk i, the chunks counted from 1 here and from 0 in the code
ConstVarName(i) == OpenplanetConstVarPrefix \o "." \o ToString(i - 1)
VarName(i) == OpenplanetVarPrefix \o "." \o ToString(i - 1)

ConstVarNodes(chunks) ==
  [i \in 1..Len(chunks) |->
     Node(ConstVarName(i), <<OpenplanetConstVarPrefix, chunks[i]>>, "const variable captures")]
VarNodes(chunks) ==
  [i \in 1..Len(chunks) |->
     Node(VarName(i), <<OpenplanetVarPrefix, chunks[i]>>, "variable captures")]

UpsertVariablesInList(patterns, chunks) ==
  LET kept == SelectSeq(patterns, LAMBDA p : ~isOpenplanetVarPattern(p))
      constIndex == FindIndex(kept, LAMBDA p : p.name = ConstVarAnchor)
      insertConstAt == IF constIndex >= 1 THEN constIndex ELSE Len(kept) + 1
      withConst == InsertAt(kept, insertConstAt, ConstVarNodes(chunks))
      varIndex == FindIndex(withConst, LAMBDA p : p.name = VarAnchor)
      insertVarAt == IF varIndex >= 1 THEN varIndex ELSE Len(withConst) + 1
  IN InsertAt(withConst, insertVarAt, VarNodes(chunks))

upsertOpenplanetVariableDefinitionPatterns(g, chunks) ==
  IF ~HasList(g, "declarations") THEN Thrown(g, "TypeError")
  ELSE Patched(WithList(g, "declarations",
                        UpsertVariablesInList(g.repository["declarations"].patterns, chunks)))

updateConstructorCallPattern(g) ==
  LET found == findPatternByName(g, ConstructorCall)
  IN IF found # "found" THEN Thrown(g, found)
     ELSE Patched(SetMatchByName(g, ConstructorCall, <<ConstructorCall, <<>>>>))

\* the entry is put back in front of the other include instead of behind it
moveIncludeBefore(patterns, includeToMove, includeAfter) ==
  LET moveIndex == FindIndex(patterns, LAMBDA p : p.include = includeToMove)
      afterIndex == FindIndex(patterns, LAMBDA p : p.include = includeAfter)
  IN IF moveIndex < 1 THEN patterns
     ELSE IF afterIndex < 1 \/ moveIndex = afterIndex + 1 THEN patterns
     ELSE LET entry == patterns[moveIndex]
              rest == RemoveAt(patterns, moveIndex)
              nextAfterIndex == FindIndex(rest, LAMBDA p : p.include = includeAfter)
              insertIndex == IF nextAfterIndex >= 1 THEN nextAfterIndex ELSE Len(rest) + 1
          IN InsertAt(rest, insertIndex, <<entry>>)

moveIncludeAfter(patterns, includeToMove, includeAfter) ==
  LET moveIndex == FindIndex(patterns, LAMBDA p : p.include = includeToMove)
      afterIndex == FindIndex(patterns, LAMBDA p : p.include = includeAfter)
  IN IF moveIndex < 1 THEN patterns
     ELSE IF afterIndex < 1 \/ moveIndex = afterIndex + 1 THEN patterns
     ELSE LET entry == patterns[moveIndex]
              rest == RemoveAt(patterns, moveIndex)
              nextAfterIndex == FindIndex(rest, LAMBDA p : p.include = includeAfter)
              insertIndex == IF nextAfterIndex >= 1 THEN nextAfterIndex + 1 ELSE Len(rest) + 1
          IN InsertAt(rest, insertIndex, <<entry>>)

TypeIdentifierMatch == <<TypeIdentifierName, <<>>>>

stabilizeFunctionAndTypeScopes(g) ==
  LET moved == [g EXCEPT !.patterns = moveIncludeAfter(g.patterns, "#types", "#functionCalls")]
  IN IF /\ "typeIdentifiers" \in DOMAIN moved.repository
        /\ Len(moved.repository["typeIdentifiers"].patterns) > 0
        /\ moved.repository["typeIdentifiers"].patterns[1].name = TypeIdentifierName
     THEN [moved EXCEPT !.repository["typeIdentifiers"].patterns[1].match = TypeIdentifierMatch]
     ELSE moved

(***************************************************************************)
(* The metadata sources of a run: the paths resolveSourcePaths ends up     *)
(* with, the files that exist, and what each file holds (whether it parses *)
(* and the symbols its reader takes from it).                              *)
(***************************************************************************)
Controls == <<"C","o","n","t","r","o","l","s">>
Camera == <<"C","a","m","e","r","a">>
VehicleState == <<"V","e","h","i","c","l","e","S","t","a","t","e">>
NadeoServices == <<"N","a","d","e","o","S","e","r","v","i","c","e","s">>
alwaysIncludeNamespaces == <<Controls, Camera, VehicleState, NadeoServices>>

NsUI == <<"U","I">>
TyLabel == <<"L","a","b","e","l">>
TyLabelEx == <<"L","a","b","e","l","E","x">>
FnGetApp == <<"G","e","t","A","p","p">>

NoSymbols == [namespaces |-> {}, types |-> {}, globalFunctions |-> {}]
Content(parsable, syms) == [parsable |-> parsable, symbols |-> syms]

CorePath == "OpenplanetNext/OpenplanetCore.json"
GamePath == "OpenplanetNext/OpenplanetNext.json"

SourceCases ==
  { \* a core file and a per-application file
    [coreJsonPaths |-> <<CorePath>>, gameJsonPaths |-> <<GamePath>>, headerPaths |-> <<>>,
     existing |-> {CorePath, GamePath},
     content |-> [p \in {CorePath, GamePath} |->
                    IF p = CorePath
                    THEN Content(TRUE, [namespaces |-> {}, types |-> {TyLabelEx},
                                        globalFunctions |-> {FnGetApp}])
                    ELSE Content(TRUE, [namespaces |-> {NsUI}, types |-> {TyLabel},
                                        globalFunctions |-> {}])]],
    \* a core file that yields no symbol
    [coreJsonPaths |-> <<CorePath>>, gameJsonPaths |-> <<>>, headerPaths |-> <<>>,
     existing |-> {CorePath},
     content |-> [p \in {CorePath} |-> Content(TRUE, NoSymbols)]],
    \* nothing resolved
    [coreJsonPaths |-> <<>>, gameJsonPaths |-> <<>>, headerPaths |-> <<>>,
     existing |-> {}, content |-> [p \in {} |-> Content(TRUE, NoSymbols)]],
    \* an explicit --core file that does not exist
    [coreJsonPaths |-> <<CorePath>>, gameJsonPaths |-> <<>>, headerPaths |-> <<>>,
     existing |-> {}, content |-> [p \in {} |-> Content(TRUE, NoSymbols)]],
    \* a per-application file that is not JSON
    [coreJsonPaths |-> <<CorePath>>, gameJsonPaths |-> <<GamePath>>, headerPaths |-> <<>>,
     existing |-> {CorePath, GamePath},
     content |-> [p \in {CorePath, GamePath} |->
                    IF p = CorePath THEN Content(TRUE, NoSymbols)
                    ELSE Content(FALSE, NoSymbols)]] }

\* lines 312-320 with header files counted as sources
resolveSourcePathsHeadersSuffice(s) ==
  IF \E p \in Range(s.coreJsonPaths) \cup Range(s.gameJsonPaths) \cup Range(s.headerPaths) :
       p \notin s.existing
  THEN "file not found"
  ELSE IF Len(s.coreJsonPaths) = 0 /\ Len(s.gameJsonPaths) = 0 /\ Len(s.headerPaths) = 0
  THEN "No Openplanet JSON sources found"
  ELSE ""

\* lines 312-320 of resolveSourcePaths: "" or the error thrown
resolveSourcePaths(s) ==
  IF \E p \in Range(s.coreJsonPaths) \cup Range(s.gameJsonPaths) \cup Range(s.headerPaths) :
       p \notin s.existing
  THEN "file not found"
  ELSE IF Len(s.coreJsonPaths) = 0 /\ Len(s.gameJsonPaths) = 0
  THEN "No Openplanet JSON sources found"
  ELSE ""

\* collectSymbolsFromSources: the union of what the readers add, seeded with
\* the always-include namespaces; readJson throws on a file that is not JSON
MetadataParses(s) ==
  \A p \in Range(s.coreJsonPaths) \cup Range(s.gameJsonPaths) : s.content[p].parsable

collectSymbolsFromSources(s) ==
  LET paths == Range(s.coreJsonPaths) \cup Range(s.gameJsonPaths) \cup Range(s.headerPaths)
  IN [namespaces |-> Range(alwaysIncludeNamespaces)
                       \cup UNION {s.content[p].symbols.namespaces : p \in paths},
      types |-> UNION {s.content[p].symbols.types : p \in paths},
      globalFunctions |->
        UNION {s.content[p].symbols.globalFunctions
                 : p \in Range(s.coreJsonPaths)}]

(***************************************************************************)
(* The documents a run may find on disk.                                   *)
(***************************************************************************)
StaleAlternation == <<"O","l","d">>
Stale(name, captures) == Node(name, <<name, StaleAlternation>>, captures)

MemberAccessNodes ==
  { Hand(ScopeFunctionCallBuiltin),
    Group(<<Hand(ScopeFunctionCallBuiltin)>>),
    Stale(DeepFunctionName, "deep function captures"),
    Stale(DeepMemberName, "deep member captures"),
    Hand("variable.other.member.angelscript") }
TypesNodes ==
  { Hand(TypeReferenceAnchor),
    Stale(OpenplanetTypeName, ""),
    Hand("storage.type.primitive.angelscript") }
FunctionCallsNodes ==
  { Hand(GenericCallAnchor),
    Stale(BuiltinFunctionName, ""),
    Hand("keyword.other.cast.angelscript") }
DeclarationsNodes ==
  { Hand(ConstVarAnchor),
    Hand(VarAnchor),
    Node(ConstVarName(1), <<OpenplanetConstVarPrefix, StaleAlternation>>, "const variable captures"),
    Node(VarName(1), <<OpenplanetVarPrefix, StaleAlternation>>, "variable captures"),
    Node(VarName(2), <<OpenplanetVarPrefix, StaleAlternation>>, "variable captures"),
    Include("#functionDefinitions") }
TopLevelNodes == { Include("#functionCalls"), Include("#types"), Include("#comments") }

BaseMisc ==
  <<Hand(FunctionDefinitionBuiltin), Hand(VariableDefinitionConstBuiltin),
    Hand(VariableDefinitionBuiltin), Hand(FunctionReferenceWrapperBuiltin),
    Hand(FunctionReferenceBuiltin), Hand(ScopeMemberBuiltin), Hand(ConstructorCall)>>

BaseRepository ==
  [k \in Range(RepositoryOrder) |->
     [patterns |->
        CASE k = "memberAccess" ->
               <<Hand(ScopeFunctionCallBuiltin), Hand("variable.other.member.angelscript")>>
          [] k = "types" -> <<Hand("storage.type.primitive.angelscript"), Hand(TypeReferenceAnchor)>>
          [] k = "functionCalls" -> <<Hand(GenericCallAnchor)>>
          [] k = "declarations" -> <<Hand(ConstVarAnchor), Hand(VarAnchor)>>
          [] k = "typeIdentifiers" -> <<Hand(TypeIdentifierName)>>
          [] k = "misc" -> BaseMisc]]

BaseGrammar ==
  [patterns |-> <<Include("#comments"), Include("#types"), Include("#functionCalls")>>,
   repository |-> BaseRepository]

Without(repository, key) == [k \in (DOMAIN repository) \ {key} |-> repository[k]]

\* the base document with one pattern list replaced by any list of up to
\* MaxListLen nodes of that list's kind, with one repository key missing, or
\* with one of the named target nodes missing or doubled
Documents ==
  {[BaseGrammar EXCEPT !.repository["memberAccess"].patterns = l] :
     l \in SeqsUpTo(MemberAccessNodes, MaxListLen)}
  \cup {[BaseGrammar EXCEPT !.repository["types"].patterns = l] :
     l \in SeqsUpTo(TypesNodes, MaxListLen)}
  \cup {[BaseGrammar EXCEPT !.repository["functionCalls"].patterns = l] :
     l \in SeqsUpTo(FunctionCallsNodes, MaxListLen)}
  \cup {[BaseGrammar EXCEPT !.repository["declarations"].patterns = l] :
     l \in SeqsUpTo(DeclarationsNodes, MaxListLen)}
  \cup {[BaseGrammar EXCEPT !.patterns = l] : l \in SeqsUpTo(TopLevelNodes, MaxListLen)}
  \cup {[BaseGrammar EXCEPT !.repository = Without(BaseRepository, k)] :
     k \in {"memberAccess", "types", "functionCalls", "declarations", "typeIdentifiers"}}
  \cup {[BaseGrammar EXCEPT !.repository["misc"].patterns = l] :
     l \in {SubSeq(BaseMisc, 1, 6), SubSeq(BaseMisc, 2, 7),
            BaseMisc \o <<Hand(FunctionReferenceBuiltin)>>,
            BaseMisc \o <<Group(<<Hand(ConstructorCall)>>)>>}}
  \cup {[BaseGrammar EXCEPT !.repository["typeIdentifiers"].patterns = l] :
     l \in {<<>>, <<Hand("support.type.angelscript"), Hand(TypeIdentifierName)>>}}

\* the file: a document, or text that JSON.parse rejects
OnDisk(doc) == [parsable |-> TRUE, doc |-> doc]
NotJson == [parsable |-> FALSE, doc |-> BaseGrammar]

(***************************************************************************)
(* main(): one generator process, step by step; a finished process may be  *)
(* followed by another one, run on the file the first one left.            *)
(***************************************************************************)
MainSteps ==
  <<"resolveSourcePaths", "readJson", "collectSymbolsFromSources", "setNamespaceMatches",
    "upsertDeepBuiltinScopePatterns", "upsertKnownTypePatterns",
    "upsertBuiltinGlobalFunctions", "upsertOpenplanetVariableDefinitionPatterns",
    "updateConstructorCallPattern", "stabilizeFunctionAndTypeScopes", "writeFileSync">>

StepAfter(step) ==
  LET i == CHOOSE j \in 1..Len(MainSteps) : MainSteps[j] = step
  IN IF i = Len(MainSteps) THEN "done" ELSE MainSteps[i + 1]

GIdle ==
  /\ gpc = "idle" /\ file = NotJson /\ sources = {} /\ grammar = BaseGrammar
  /\ symbols = NoSymbols /\ namespaceAlternation = <<>> /\ typeChunks = <<>>
  /\ globalFunctionAlternation = <<>> /\ gExit = "none" /\ gError = ""
  /\ gRuns = 0 /\ gOutputs = <<>> /\ gFileAtStart = NotJson /\ gWrites = 0 /\ gTrail = <<>>

GInit ==
  /\ gpc = "resolveSourcePaths"
  /\ file \in {OnDisk(d) : d \in Documents} \cup {NotJson}
  /\ sources \in SourceCases
  /\ grammar = BaseGrammar
  /\ symbols = NoSymbols /\ namespaceAlternation = <<>> /\ typeChunks = <<>>
  /\ globalFunctionAlternation = <<>> /\ gExit = "none" /\ gError = ""
  /\ gRuns = 1 /\ gOutputs = <<>> /\ gFileAtStart = file /\ gWrites = 0 /\ gTrail = <<>>

\* an uncaught error ends the process with exit code 1
Fail(error) ==
  /\ gpc' = "failed"
  /\ gError' = error
  /\ gExit' = 1
  /\ UNCHANGED gTrail

Proceed ==
  /\ gpc' = StepAfter(gpc)
  /\ gTrail' = Append(gTrail, gpc)
  /\ UNCHANGED <<gError, gExit>>

\* a patch step of main(): the document is replaced by the patched one, or
\* the step's error ends the process
PatchStep(step, result) ==
  /\ gpc = step
  /\ grammar' = result.grammar
  /\ IF result.error # "" THEN Fail(result.error) ELSE Proceed
  /\ UNCHANGED <<file, sources, symbols, namespaceAlternation, typeChunks,
                 globalFunctionAlternation, gRuns, gOutputs, gFileAtStart, gWrites>>
  /\ UNCHANGED <<rxVars, wVars, eVars, fnVars>>

ResolveSources ==
  /\ gpc = "resolveSourcePaths"
  /\ IF resolveSourcePaths(sources) # "" THEN Fail(resolveSourcePaths(sources)) ELSE Proceed
  /\ UNCHANGED <<file, sources, grammar, symbols, namespaceAlternation, typeChunks,
                 globalFunctionAlternation, gRuns, gOutputs, gFileAtStart, gWrites>>
  /\ UNCHANGED <<rxVars, wVars, eVars, fnVars>>

\* const grammar = readJson(grammarPath)
ReadGrammar ==
  /\ gpc = "readJson"
  /\ IF file.parsable
     THEN grammar' = file.doc /\ Proceed
     ELSE UNCHANGED grammar /\ Fail("SyntaxError")
  /\ UNCHANGED <<file, sources, symbols, namespaceAlternation, typeChunks,
                 globalFunctionAlternation, gRuns, gOutputs, gFileAtStart, gWrites>>
  /\ UNCHANGED <<rxVars, wVars, eVars, fnVars>>

\* collectSymbolsFromSources and the three alternations built from it
CollectSymbols ==
  /\ gpc = "collectSymbolsFromSources"
  /\ IF MetadataParses(sources)
     THEN LET out == collectSymbolsFromSources(sources)
          IN /\ symbols' = out
             /\ namespaceAlternation' = makeAlternation(out.namespaces)
             /\ typeChunks' = chunkAlternation(out.types, DefaultMaxChunkLength)
             /\ globalFunctionAlternation' = makeAlternation(out.globalFunctions)
             /\ Proceed
     ELSE /\ Fail("SyntaxError")
          /\ UNCHANGED <<symbols, namespaceAlternation, typeChunks, globalFunctionAlternation>>
  /\ UNCHANGED <<file, sources, grammar, gRuns, gOutputs, gFileAtStart, gWrites>>
  /\ UNCHANGED <<rxVars, wVars, eVars, fnVars>>

SetNamespaceMatches ==
  PatchStep("setNamespaceMatches", setNamespaceMatches(grammar, namespaceAlternation))

UpsertDeepBuiltinScopePatterns ==
  PatchStep("upsertDeepBuiltinScopePatterns",
            upsertDeepBuiltinScopePatterns(grammar, namespaceAlternation))

UpsertKnownTypePatterns ==
  PatchStep("upsertKnownTypePatterns", upsertKnownTypePatterns(grammar, typeChunks))

UpsertBuiltinGlobalFunctions ==
  PatchStep("upsertBuiltinGlobalFunctions",
            upsertBuiltinGlobalFunctions(grammar, globalFunctionAlternation))

UpsertOpenplanetVariableDefinitionPatterns ==
  PatchStep("upsertOpenplanetVariableDefinitionPatterns",
            upsertOpenplanetVariableDefinitionPatterns(grammar, typeChunks))

\* updateConstructorCallPattern reached after the file has already been
\* written with the document as patched so far
UpdateConstructorCallPatternAfterWrite ==
  /\ gpc = "updateConstructorCallPattern"
  /\ LET result == updateConstructorCallPattern(grammar)
     IN /\ grammar' = result.grammar
        /\ IF result.error # "" THEN Fail(result.error) ELSE Proceed
  /\ file' = OnDisk(grammar)
  /\ gWrites' = gWrites + 1
  /\ UNCHANGED <<sources, symbols, namespaceAlternation, typeChunks,
                 globalFunctionAlternation, gRuns, gOutputs, gFileAtStart>>
  /\ UNCHANGED <<rxVars, wVars, eVars, fnVars>>

UpdateConstructorCallPattern ==
  PatchStep("updateConstructorCallPattern", updateConstructorCallPattern(grammar))

StabilizeFunctionAndTypeScopes ==
  PatchStep("stabilizeFunctionAndTypeScopes", Patched(stabilizeFunctionAndTypeScopes(grammar)))

\* fs.writeFileSync(grammarPath, JSON.stringify(grammar, null, 2) + "\n"):
\* the document holds strings, arrays and objects only, so the text parses
\* back to the same document
WriteGrammar ==
  /\ gpc = "writeFileSync"
  /\ file' = OnDisk(grammar)
  /\ gWrites' = gWrites + 1
  /\ gOutputs' = Append(gOutputs, OnDisk(grammar))
  /\ gpc' = "done"
  /\ gTrail' = Append(gTrail, gpc)
  /\ gExit' = 0
  /\ UNCHANGED <<sources, grammar, symbols, namespaceAlternation, typeChunks,
                 globalFunctionAlternation, gError, gRuns, gFileAtStart>>
  /\ UNCHANGED <<rxVars, wVars, eVars, fnVars>>

\* the generator is started again, with the same sources, on the file as
\* the finished process left it
RunAgain ==
  /\ gpc = "done"
  /\ gRuns < MaxRuns
  /\ gRuns' = gRuns + 1
  /\ gpc' = "resolveSourcePaths"
  /\ gFileAtStart' = file
  /\ gWrites' = 0
  /\ gTrail' = <<>>
  /\ gExit' = "none"
  /\ gError' = ""
  /\ grammar' = BaseGrammar
  /\ symbols' = NoSymbols
  /\ namespaceAlternation' = <<>>
  /\ typeChunks' = <<>>
  /\ globalFunctionAlternation' = <<>>
  /\ UNCHANGED <<file, sources, gOutputs>>
  /\ UNCHANGED <<rxVars, wVars, eVars, fnVars>>

Next ==
  \/ ResolveSources \/ ReadGrammar \/ CollectSymbols \/ SetNamespaceMatches
  \/ UpsertDeepBuiltinScopePatterns \/ UpsertKnownTypePatterns
  \/ UpsertBuiltinGlobalFunctions \/ UpsertOpenplanetVariableDefinitionPatterns
  \/ UpdateConstructorCallPattern \/ StabilizeFunctionAndTypeScopes
  \/ WriteGrammar \/ RunAgain

(***************************************************************************)
(* Single calls of the generator's functions.  Each specification below    *)
(* starts with the arguments of one call (and the files and environment    *)
(* the call reads) and applies the function as the code computes it.       *)
(***************************************************************************)
FnIdle == fnpc = "idle" /\ fnIn = <<>> /\ fnOut = <<>>

(***************************************************************************)
(* findPatternByName on nested repository trees.                           *)
(***************************************************************************)
\* a rule that carries a name but no match (a begin/end rule)
BeginEnd(name) ==
  [name |-> name, match |-> <<>>, captures |-> "hand", include |-> "", patterns |-> <<>>]
\* a match rule that also has child patterns
WithChildren(node, children) == [node EXCEPT !.patterns = children]

FindNames == {FunctionReferenceBuiltin, ConstructorCall}

FindNodes ==
  { Hand(FunctionReferenceBuiltin),
    BeginEnd(FunctionReferenceBuiltin),
    Hand(ConstructorCall),
    Group(<<Hand(FunctionReferenceBuiltin)>>),
    Group(<<BeginEnd(FunctionReferenceBuiltin)>>),
    Group(<<Group(<<Hand(FunctionReferenceBuiltin)>>)>>),
    WithChildren(Hand(FunctionReferenceBuiltin), <<Hand(FunctionReferenceBuiltin)>>) }

FindGrammars ==
  {[patterns |-> <<Hand(FunctionReferenceBuiltin)>>,
    repository |-> [k \in {"misc", "types"} |->
                      [patterns |-> IF k = "misc" THEN l ELSE t]]] :
     l \in SeqsUpTo(FindNodes, MaxListLen),
     t \in {<<>>, <<Hand(FunctionReferenceBuiltin)>>}}

\* the node findPatternByName returns when it does not throw
foundPattern(g, name) ==
  LET hits == SelectSeq(walkPatterns(g.repository), LAMBDA p : p.name = name)
  IN IF findPatternByName(g, name) = "found" THEN hits[1] ELSE "null"

FindInit ==
  /\ fnpc = "call"
  /\ fnIn \in {[grammar |-> g, name |-> n] : g \in FindGrammars, n \in FindNames}
  /\ fnOut = <<>>
  /\ RxIdle /\ WIdle /\ EIdle /\ GIdle

CallFindPatternByName ==
  /\ fnpc = "call"
  /\ fnOut' = [status |-> findPatternByName(fnIn.grammar, fnIn.name),
               found |-> foundPattern(fnIn.grammar, fnIn.name)]
  /\ fnpc' = "returned"
  /\ UNCHANGED <<fnIn, rxVars, wVars, eVars, gVars>>

FindNext == CallFindPatternByName

(***************************************************************************)
(* resolveSourcePaths: command-line arguments, environment and file system *)
(* in, the resolved path lists or an error out.  A path is the pair of a   *)
(* directory and a file name.                                              *)
(***************************************************************************)
\* resolveUniquePaths: the first occurrence of every path, in order
RECURSIVE resolveUniquePaths(_)
resolveUniquePaths(paths) ==
  IF paths = <<>> THEN <<>>
  ELSE LET before == resolveUniquePaths(SubSeq(paths, 1, Len(paths) - 1))
           last == paths[Len(paths)]
       IN IF last \in Range(before) THEN before ELSE Append(before, last)

HomeDir == "~"
defaultInstallDirNames == <<"OpenplanetNext", "OpenplanetTurbo", "Openplanet4">>
defaultInstallDirs ==
  [i \in 1..Len(defaultInstallDirNames) |-> HomeDir \o "/" \o defaultInstallDirNames[i]]

\* the directory entries discoverInstallDataFiles tells apart
CoreJsonName == "OpenplanetCore.json"
GameJsonName == "OpenplanetNext.json"
HeaderName == "Openplanet.h"
OtherName == "openplanetcore.json"
DirEntryOrder == <<HeaderName, OtherName, CoreJsonName, GameJsonName>>

\* /^Openplanet(?!Core)[A-Za-z0-9_]*\.json$/i on the names above
IsGameJsonName(name) == name = GameJsonName

\* discoverInstallDataFiles(installDir, includeHeaders) on a file system fs
discoverInstallDataFiles(fs, installDir, includeHeaders) ==
  LET entries == SelectSeq(DirEntryOrder, LAMBDA n : <<installDir, n>> \in fs.files)
  IN [coreJsonPaths |->
        [i \in 1..Len(SelectSeq(entries, LAMBDA n : n = CoreJsonName)) |->
           <<installDir, CoreJsonName>>],
      gameJsonPaths |->
        LET games == SelectSeq(entries, LAMBDA n : n # CoreJsonName /\ IsGameJsonName(n))
        IN [i \in 1..Len(games) |-> <<installDir, games[i]>>],
      headerPaths |->
        IF includeHeaders /\ <<installDir, HeaderName>> \in fs.files
        THEN << <<installDir, HeaderName>> >> ELSE <<>>]

\* lines 282-289 with no tier for the explicit files: the environment and
\* default directories are scanned next to explicitly given files
selectInstallDirsIgnoringExplicitFiles(a) ==
  IF Len(a.explicitInstallDirs) > 0 THEN a.explicitInstallDirs
  ELSE IF Len(a.envInstallDirs) > 0 THEN a.envInstallDirs
  ELSE defaultInstallDirs

\* lines 282-289: the directories to scan, before the existence filter
selectInstallDirs(a) ==
  LET hasExplicitFiles ==
        Len(a.explicitCorePaths) > 0 \/ Len(a.explicitGamePaths) > 0
          \/ Len(a.explicitHeaderPaths) > 0
  IN IF Len(a.explicitInstallDirs) > 0 THEN a.explicitInstallDirs
     ELSE IF hasExplicitFiles THEN <<>>
     ELSE IF Len(a.envInstallDirs) > 0 THEN a.envInstallDirs
     ELSE defaultInstallDirs

RECURSIVE DiscoverAll(_, _, _)
DiscoverAll(fs, dirs, includeHeaders) ==
  IF dirs = <<>> THEN [coreJsonPaths |-> <<>>, gameJsonPaths |-> <<>>, headerPaths |-> <<>>]
  ELSE LET d == discoverInstallDataFiles(fs, Head(dirs), includeHeaders)
           rest == DiscoverAll(fs, Tail(dirs), includeHeaders)
       IN [coreJsonPaths |-> d.coreJsonPaths \o rest.coreJsonPaths,
           gameJsonPaths |-> d.gameJsonPaths \o rest.gameJsonPaths,
           headerPaths |-> d.headerPaths \o rest.headerPaths]

\* lines 285-310: const resolved, with the files that exist next to it
ResolvedPaths(a, fs) ==
  LET installDirs == SelectSeq(selectInstallDirs(a), LAMBDA d : d \in fs.dirs)
      discovered == DiscoverAll(fs, installDirs, a.includeHeaders)
  IN [includeHeaders |-> a.includeHeaders,
      installDirs |-> installDirs,
      coreJsonPaths |-> resolveUniquePaths(a.explicitCorePaths \o discovered.coreJsonPaths),
      gameJsonPaths |-> resolveUniquePaths(a.explicitGamePaths \o discovered.gameJsonPaths),
      headerPaths |-> resolveUniquePaths(a.explicitHeaderPaths \o discovered.headerPaths),
      existing |-> fs.files]

\* the directories and files of the calls examined
ExplicitDir == "D:/Openplanet"
EnvDir == "E:/OpenplanetEnv"
ElsewhereDir == "F:/metadata"
ScannableDirs == {ExplicitDir, EnvDir, defaultInstallDirs[1]}
DirContents ==
  {{}, {HeaderName}, {CoreJsonName, HeaderName, OtherName}, {GameJsonName, HeaderName}}
ElsewhereCore == <<ElsewhereDir, "core.json">>
ElsewhereHeader == <<ElsewhereDir, HeaderName>>

FileSystems ==
  {[dirs |-> ds,
    files |-> {p \in {<<ExplicitDir, n>> : n \in cx}
                     \cup {<<EnvDir, n>> : n \in ce}
                     \cup {<<defaultInstallDirs[1], n>> : n \in ch} : p[1] \in ds}
              \cup extra] :
     ds \in SUBSET ScannableDirs, cx \in DirContents, ce \in DirContents, ch \in DirContents,
     extra \in {{}, {ElsewhereCore, ElsewhereHeader}}}

ResolveArgs ==
  [includeHeaders : BOOLEAN,
   explicitCorePaths : {<<>>, <<ElsewhereCore>>},
   explicitGamePaths : {<<>>, << <<ExplicitDir, GameJsonName>> >>},
   explicitHeaderPaths : {<<>>, <<ElsewhereHeader>>},
   explicitInstallDirs : {<<>>, <<ExplicitDir>>, <<ExplicitDir, defaultInstallDirs[1]>>},
   envInstallDirs : {<<>>, <<EnvDir>>}]

ResolveInit ==
  /\ fnpc = "call"
  /\ fnIn \in {[args |-> a, fs |-> f] : a \in ResolveArgs, f \in FileSystems}
  /\ fnOut = <<>>
  /\ RxIdle /\ WIdle /\ EIdle /\ GIdle

CallResolveSourcePaths ==
  /\ fnpc = "call"
  /\ LET resolved == ResolvedPaths(fnIn.args, fnIn.fs)
     IN fnOut' = [resolved |-> resolved, error |-> resolveSourcePaths(resolved)]
  /\ fnpc' = "returned"
  /\ UNCHANGED <<fnIn, rxVars, wVars, eVars, gVars>>

ResolveNext == CallResolveSourcePaths

(***************************************************************************)
(* The three metadata readers and collectSymbolsFromSources.  A name is a  *)
(* sequence of characters; a field a descriptor does not have is <<>>      *)
(* (undefined and the empty string are both falsy in the code's tests).    *)
(***************************************************************************)
CharsOf(s) == [i \in 1..Len(s) |-> SubSeq(s, i, i)]

primitiveTypes ==
  {CharsOf(p) : p \in {"void", "bool", "int", "uint", "int8", "int16", "int32", "int64",
                       "uint8", "uint16", "uint32", "uint64", "float", "double", "string",
                       "vec2", "vec3", "vec4", "int2", "int3", "nat2", "nat3", "quat",
                       "array", "dictionary"}}

Digits == {"0", "1", "2", "3", "4", "5", "6", "7", "8", "9"}
IsIdentStart(c) == c \in DOMAIN UpperOf \/ IsUpper(c) \/ c = "_"
IsIdentPart(c) == IsIdentStart(c) \/ c \in Digits

\* identRx.test(name): /^[A-Za-z_][A-Za-z0-9_]*$/
identRx(name) ==
  /\ Len(name) >= 1
  /\ IsIdentStart(name[1])
  /\ \A i \in 2..Len(name) : IsIdentPart(name[i])

\* text.split("::")
RECURSIVE SplitScope(_, _)
SplitScope(text, current) ==
  IF text = <<>> THEN <<current>>
  ELSE IF Len(text) >= 2 /\ text[1] = ":" /\ text[2] = ":"
  THEN <<current>> \o SplitScope(SubSeq(text, 3, Len(text)), <<>>)
  ELSE SplitScope(Tail(text), Append(current, Head(text)))

\* namespaceRx.test(ns): identifiers joined by "::"
namespaceRx(ns) == \A seg \in Range(SplitScope(ns, <<>>)) : identRx(seg)

Truthy(field) == field # <<>>

\* collectSymbolsFromCoreJson(core, out)
collectSymbolsFromCoreJson(core, out) ==
  LET groups == core.functions \o core.enums \o core.props \o core.funcdefs \o core.classes
  IN [namespaces |-> out.namespaces
        \cup {groups[i].ns : i \in {j \in DOMAIN groups :
                                      Truthy(groups[j].ns) /\ namespaceRx(groups[j].ns)}},
      types |-> out.types
        \cup {core.classes[i].name : i \in {j \in DOMAIN core.classes :
                /\ Truthy(core.classes[j].name) /\ identRx(core.classes[j].name)
                /\ core.classes[j].name \notin primitiveTypes}},
      globalFunctions |-> out.globalFunctions
        \cup {core.functions[i].name : i \in {j \in DOMAIN core.functions :
                /\ Truthy(core.functions[j].name) /\ identRx(core.functions[j].name)
                /\ ~(Truthy(core.functions[j].ns) /\ namespaceRx(core.functions[j].ns))}}]

\* the per-application reader without the primitive test of line 192
collectSymbolsFromGameJsonKeepingPrimitives(gameJson, out) ==
  IF ~gameJson.nsIsObject THEN out
  ELSE [out EXCEPT
          !.namespaces = @ \cup {gameJson.ns[i].topNs : i \in {j \in DOMAIN gameJson.ns :
                                   namespaceRx(gameJson.ns[j].topNs)}},
          !.types = @ \cup UNION {{c \in Range(gameJson.ns[i].classes) : identRx(c)} :
                                    i \in {j \in DOMAIN gameJson.ns :
                                             gameJson.ns[j].classesIsObject}}]

\* collectSymbolsFromGameJson(gameJson, out): gameJson.ns, when it is an
\* object, is the sequence of its entries, each a key and, when the value
\* is an object, the keys of the value
collectSymbolsFromGameJson(gameJson, out) ==
  IF ~gameJson.nsIsObject THEN out
  ELSE [out EXCEPT
          !.namespaces = @ \cup {gameJson.ns[i].topNs : i \in {j \in DOMAIN gameJson.ns :
                                   namespaceRx(gameJson.ns[j].topNs)}},
          !.types = @ \cup UNION {{c \in Range(gameJson.ns[i].classes) :
                                     identRx(c) /\ c \notin primitiveTypes} :
                                    i \in {j \in DOMAIN gameJson.ns :
                                             gameJson.ns[j].classesIsObject}}]

\* collectSymbolsFromHeader(headerText, out): the header is the sequence of
\* the declarations its four regular expressions match, each with the text
\* of its capture group; "enum class N" is matched by typeDeclRx as well,
\* which captures the first segment of N
collectSymbolsFromHeader(decls, out) ==
  LET Of(kinds) == {decls[i].name : i \in {j \in DOMAIN decls : decls[j].kind \in kinds}}
      typeNames == Of({"class", "struct"})
                     \cup {SplitScope(n, <<>>)[1] : n \in Of({"enum class"})}
      segments == UNION {Range(SplitScope(n, <<>>)) : n \in Of({"enum class"})}
  IN [out EXCEPT
        !.namespaces = @ \cup {n \in Of({"namespace", "using namespace"}) : namespaceRx(n)},
        !.types = @ \cup {n \in typeNames \cup segments : identRx(n) /\ n \notin primitiveTypes}]

\* lines 326-330 without the always-include namespaces
CollectSeedEmpty == [namespaces |-> {}, types |-> {}, globalFunctions |-> {}]

\* lines 326-330: const out
CollectSeed ==
  [namespaces |-> Range(alwaysIncludeNamespaces), types |-> {}, globalFunctions |-> {}]

\* the metadata of the calls examined
NsSub == CharsOf("UI::Sub")
NsDangling == CharsOf("UI::")
NameInt == CharsOf("int")
NameArray == CharsOf("array")
NameDigit == CharsOf("9x")
NameColor == CharsOf("Color")
Item(name, ns) == [name |-> name, ns |-> ns]

CoreDocs ==
  [functions : {<<>>, <<Item(<<>>, <<>>)>>}
                 \cup {<<Item(n, t)>> : n \in {FnGetApp, NameDigit},
                                        t \in {<<>>, NsUI, NsDangling}},
   enums : {<<>>, <<Item(NameColor, NsSub)>>},
   props : {<<>>},
   funcdefs : {<<>>},
   classes : {<<>>, <<Item(TyLabel, <<>>)>>, <<Item(NameInt, <<>>)>>,
              <<Item(TyLabelEx, NsUI), Item(NameArray, NsDangling)>>, <<Item(NameDigit, <<>>)>>}]

GameEntry(topNs, isObject, classes) ==
  [topNs |-> topNs, classesIsObject |-> isObject, classes |-> classes]
GameDocs ==
  {[nsIsObject |-> FALSE, ns |-> <<>>], [nsIsObject |-> TRUE, ns |-> <<>>]}
    \cup {[nsIsObject |-> TRUE, ns |-> <<GameEntry(t, TRUE, c)>>] :
            t \in {NsUI, NsDangling},
            c \in {<<TyLabel>>, <<NameInt, TyLabel>>, <<NameDigit>>}}
    \cup {[nsIsObject |-> TRUE, ns |-> <<GameEntry(NsUI, FALSE, <<>>)>>]}

Decl(kind, name) == [kind |-> kind, name |-> name]
HeaderDecls ==
  { Decl("namespace", NsSub), Decl("namespace", NsDangling), Decl("using namespace", NsUI),
    Decl("class", TyLabel), Decl("class", NameInt), Decl("struct", NameArray),
    Decl("enum class", NameColor), Decl("enum class", CharsOf("int::Color")),
    Decl("enum class", CharsOf("Color::string")) }
Headers ==
  {<<>>, <<Decl("class", NameInt), Decl("enum class", CharsOf("UI::array"))>>}
    \cup {<<d>> : d \in HeaderDecls}

PlainCore ==
  [functions |-> <<Item(FnGetApp, <<>>)>>, enums |-> <<>>, props |-> <<>>,
   funcdefs |-> <<>>, classes |-> <<Item(TyLabelEx, <<>>)>>]

CollectInputs ==
  [coreJson : {<<>>} \cup {<<c>> : c \in CoreDocs} \cup {<<PlainCore, c>> : c \in {PlainCore}},
   gameJson : {<<>>} \cup {<<g>> : g \in GameDocs},
   headers : {<<>>} \cup {<<h>> : h \in Headers}
               \cup {<<h, h>> : h \in {<<Decl("struct", TyLabel)>>}}]

CollectInit ==
  /\ fnpc = "call"
  /\ fnIn \in CollectInputs
  /\ fnOut = <<>>
  /\ RxIdle /\ WIdle /\ EIdle /\ GIdle

\* lines 326-330
StartCollect ==
  /\ fnpc = "call"
  /\ fnOut' = [out |-> CollectSeed, read |-> 0]
  /\ fnpc' = "reading"
  /\ UNCHANGED <<fnIn, rxVars, wVars, eVars, gVars>>

\* one turn of the loop of lines 332-334
ReadCoreJson ==
  /\ fnpc = "reading"
  /\ fnOut.read < Len(fnIn.coreJson)
  /\ fnOut' = [out |-> collectSymbolsFromCoreJson(fnIn.coreJson[fnOut.read + 1], fnOut.out),
               read |-> fnOut.read + 1]
  /\ UNCHANGED <<fnpc, fnIn, rxVars, wVars, eVars, gVars>>

\* one turn of the loop of lines 336-338
ReadGameJson ==
  /\ fnpc = "reading"
  /\ fnOut.read >= Len(fnIn.coreJson)
  /\ fnOut.read < Len(fnIn.coreJson) + Len(fnIn.gameJson)
  /\ fnOut' = [out |-> collectSymbolsFromGameJson(
                          fnIn.gameJson[fnOut.read - Len(fnIn.coreJson) + 1], fnOut.out),
               read |-> fnOut.read + 1]
  /\ UNCHANGED <<fnpc, fnIn, rxVars, wVars, eVars, gVars>>

\* one turn of the loop of lines 340-342
ReadHeader ==
  /\ fnpc = "reading"
  /\ fnOut.read >= Len(fnIn.coreJson) + Len(fnIn.gameJson)
  /\ fnOut.read < Len(fnIn.coreJson) + Len(fnIn.gameJson) + Len(fnIn.headers)
  /\ fnOut' = [out |-> collectSymbolsFromHeader(
                          fnIn.headers[fnOut.read - Len(fnIn.coreJson) - Len(fnIn.gameJson) + 1],
                          fnOut.out),
               read |-> fnOut.read + 1]
  /\ UNCHANGED <<fnpc, fnIn, rxVars, wVars, eVars, gVars>>

\* line 344: return out
ReturnSymbols ==
  /\ fnpc = "reading"
  /\ fnOut.read = Len(fnIn.coreJson) + Len(fnIn.gameJson) + Len(fnIn.headers)
  /\ fnpc' = "returned"
  /\ UNCHANGED <<fnIn, fnOut, rxVars, wVars, eVars, gVars>>

CollectNext == StartCollect \/ ReadCoreJson \/ ReadGameJson \/ ReadHeader \/ ReturnSymbols

vars == <<rxVars, wVars, eVars, gVars, fnVars>>

InitRegex == RxInit /\ WIdle /\ EIdle /\ GIdle /\ FnIdle
InitWatch == WInit /\ RxIdle /\ EIdle /\ GIdle /\ FnIdle
InitExt == EInit /\ RxIdle /\ WIdle /\ GIdle /\ FnIdle
Init == GInit /\ RxIdle /\ WIdle /\ EIdle /\ FnIdle

Spec == Init /\ [][Next]_vars

SpecRegex == InitRegex /\ [][RxNext]_vars
SpecWatch == InitWatch /\ [][WNext]_vars
\* watch mode with what its scheduling provides: main() runs to its end, an
\* outstanding timeout fires, and a spawned child exits (each of the three
\* steps changes the variable its fairness condition is written over)
SpecWatchFair ==
  /\ InitWatch /\ [][WNext]_vars
  /\ WF_wpc(WatchMain) /\ WF_timer(TimerFire) /\ WF_wExited(ChildExit)
SpecExt == InitExt /\ [][ENext]_vars
SpecFind == FindInit /\ [][FindNext]_vars
SpecResolve == ResolveInit /\ [][ResolveNext]_vars
SpecCollect == CollectInit /\ [][CollectNext]_vars

(***************************************************************************)
(* Properties.                                                             *)
(***************************************************************************)

\* C1: a second run with the same sources, on the document the first run
\* wrote, writes the same document again.
C1_RegenerationIdempotent ==
  Len(gOutputs) >= 2 => gOutputs[2] = gOutputs[1]

ListOf(g, key) == g.repository[key].patterns
Named(list, name) == SelectSeq(list, LAMBDA p : p.name = name)
NamedWithPrefix(list, prefix) == SelectSeq(list, LAMBDA p : startsWith(p.name, prefix))

\* C2: after a successful run each patched list holds, under the names the
\* generator owns, the freshly built nodes and nothing else: one node of
\* each deep-builtin name, one builtin-function node, one type node per
\* chunk, one const and one non-const variable-definition node per chunk.
C2_NoLeftoverGeneratedNodes ==
  gpc = "done" =>
    /\ Named(ListOf(grammar, "memberAccess"), DeepFunctionName)
         = <<DeepBuiltinNodes(namespaceAlternation)[1]>>
    /\ Named(ListOf(grammar, "memberAccess"), DeepMemberName)
         = <<DeepBuiltinNodes(namespaceAlternation)[2]>>
    /\ Named(ListOf(grammar, "functionCalls"), BuiltinFunctionName)
         = <<BuiltinFunctionNode(globalFunctionAlternation)>>
    /\ Named(ListOf(grammar, "types"), OpenplanetTypeName) = KnownTypeNodes(typeChunks)
    /\ NamedWithPrefix(ListOf(grammar, "declarations"), OpenplanetConstVarPrefix)
         = ConstVarNodes(typeChunks)
    /\ NamedWithPrefix(ListOf(grammar, "declarations"), OpenplanetVarPrefix)
         = VarNodes(typeChunks)

\* the nodes fresh stand together right before the first node named anchor,
\* or, with no such node, at the start or at the end of the list
PlacedAtAnchor(list, fresh, anchor, fallback) ==
  LET at == FindIndex(list, LAMBDA p : p.name = anchor)
      k == Len(fresh)
  IN IF at >= 1 THEN at > k /\ SubSeq(list, at - k, at - 1) = fresh
     ELSE IF fallback = "start" THEN Len(list) >= k /\ SubSeq(list, 1, k) = fresh
     ELSE Len(list) >= k /\ SubSeq(list, Len(list) - k + 1, Len(list)) = fresh

JustCompleted(step) == Len(gTrail) >= 1 /\ gTrail[Len(gTrail)] = step

\* C3: after each upsert the fresh nodes stand together immediately before
\* the operation's anchor when the list has it, else at the list start
\* (deep-builtin nodes) or at the list end (the other groups; the const
\* group counted without the non-const group that is placed after it).
C3_FreshNodesAtAnchor ==
  /\ JustCompleted("upsertDeepBuiltinScopePatterns") =>
       PlacedAtAnchor(ListOf(grammar, "memberAccess"), DeepBuiltinNodes(namespaceAlternation),
                      ScopeFunctionCallBuiltin, "start")
  /\ JustCompleted("upsertKnownTypePatterns") =>
       PlacedAtAnchor(ListOf(grammar, "types"), KnownTypeNodes(typeChunks),
                      TypeReferenceAnchor, "end")
  /\ JustCompleted("upsertBuiltinGlobalFunctions") =>
       PlacedAtAnchor(ListOf(grammar, "functionCalls"),
                      <<BuiltinFunctionNode(globalFunctionAlternation)>>,
                      GenericCallAnchor, "end")
  /\ JustCompleted("upsertOpenplanetVariableDefinitionPatterns") =>
       /\ PlacedAtAnchor(SelectSeq(ListOf(grammar, "declarations"),
                                   LAMBDA p : ~startsWith(p.name, OpenplanetVarPrefix)),
                         ConstVarNodes(typeChunks), ConstVarAnchor, "end")
       /\ PlacedAtAnchor(ListOf(grammar, "declarations"), VarNodes(typeChunks),
                         VarAnchor, "end")

\* C4: the file is written at most once per run and only by a run that
\* completed every step of main(); until then, and after any failure, the
\* file is what it was when the run started, and a failed run exits with a
\* non-zero code.
C4_AllOrNothing ==
  /\ gWrites <= 1
  /\ gWrites = 1 => (gpc = "done" /\ gTrail = MainSteps /\ gExit = 0 /\ file = OnDisk(grammar))
  /\ gWrites = 0 => file = gFileAtStart
  /\ gpc = "failed" => (gWrites = 0 /\ gExit = 1 /\ gError # "")
  /\ gpc = "done" => gWrites = 1

\* a run that failed after the document had been patched in memory
C4_Witness ==
  /\ gpc = "failed"
  /\ gError = "not found"
  /\ JustCompleted("upsertOpenplanetVariableDefinitionPatterns")
  /\ gFileAtStart.parsable
  /\ grammar # gFileAtStart.doc
  /\ file = gFileAtStart

\* C5: in watch mode, an exit event spawns exactly one follow-up child when
\* one or more runGenerator requests arrived while the exiting child was in
\* flight and none when no request arrived, and no request spawns a child
\* while one is in flight (the follow-up starts only at the exit).
C5_CoalescedFollowUp ==
  [][ /\ (wExited' = wExited + 1) =>
           (wSpawned' = wSpawned + (IF wReqDuring >= 1 THEN 1 ELSE 0))
      /\ (wExited' = wExited /\ wChildren > 0) => (wSpawned' = wSpawned)
    ]_vars

C5_Witness ==
  /\ runReason = "queued change"
  /\ wCoalesced >= 2
  /\ wChildren = 1
  /\ wExited >= 2

\* C6: in watch mode at most one generator child is in flight, and running
\* is true exactly while a spawned child has not yet exited.
C6_SingleChildInFlight ==
  /\ wChildren <= 1
  /\ running <=> (wChildren = 1)

C6_Witness ==
  /\ wpc = "watching"
  /\ running /\ pending /\ timer = "armed"
  /\ wChildren = 1
  /\ wSpawned >= 2

\* C7: the extension never has two generator children running at once.
C7_ExtensionSerializesRuns == Len(eChildren) <= 1

\* the symbols of every chunk, in emitted order
ChunkSymbols(chunks) == Flatten([i \in 1..Len(chunks) |-> Alternatives(chunks[i])])

\* seq lists exactly the elements of S, each once
ListsEachOnce(seq, S) ==
  /\ Len(seq) = Cardinality(S)
  /\ Range(seq) = S

\* C8 as stated: every chunk of chunkAlternation(S, L) is at most L long and
\* the chunks hold exactly the symbols of S, each once.
C8_EveryChunkWithinBound ==
  rxpc = "done" =>
    /\ \A i \in 1..Len(rxChunks) : Len(rxChunks[i]) <= rxMax
    /\ ListsEachOnce(ChunkSymbols(rxChunks), rxValues)

\* C8 amended: every chunk that joins two or more symbols is at most L long
\* (a chunk made of one escaped symbol may be longer than L), and the chunks
\* hold exactly the symbols of S, each once.
C8_MultiSymbolChunksWithinBound ==
  rxpc = "done" =>
    /\ \A i \in 1..Len(rxChunks) :
         Len(Alternatives(rxChunks[i])) >= 2 => Len(rxChunks[i]) <= rxMax
    /\ ListsEachOnce(ChunkSymbols(rxChunks), rxValues)

C8_Witness ==
  /\ rxpc = "done"
  /\ Len(rxChunks) >= 2
  /\ \E i \in 1..Len(rxChunks) :
       Len(Alternatives(rxChunks[i])) >= 2 /\ Len(rxChunks[i]) = rxMax

\* x stands before y in seq
ComesBefore(seq, x, y) ==
  \E i, j \in 1..Len(seq) : i < j /\ seq[i] = x /\ seq[j] = y

\* C9: when A is a proper prefix of B, A's alternative never comes before
\* B's, in the string of makeAlternation and in the chunks of
\* chunkAlternation read in emitted order.
C9_LongerAlternativeFirst ==
  \A A, B \in rxValues :
    (A # B /\ IsPrefix(A, B)) =>
      /\ rxpc \in {"alt", "done"} => ~ComesBefore(Alternatives(rxAlt), A, B)
      /\ rxpc = "done" => ~ComesBefore(ChunkSymbols(rxChunks), A, B)

C9_Witness ==
  /\ rxpc = "done"
  /\ Len(rxChunks) >= 2
  /\ \E A, B \in rxValues :
       /\ A # B /\ IsPrefix(A, B)
       /\ ComesBefore(Alternatives(rxAlt), B, A)
       /\ B \in Range(Alternatives(rxChunks[1]))
       /\ A \in Range(Alternatives(rxChunks[Len(rxChunks)]))

\* C10 as stated: for the empty set makeAlternation returns "(?!)" and
\* chunkAlternation returns the one chunk "(?!)".
C10_PlaceholderFromBothBuilders ==
  (rxpc = "done" /\ rxValues = {}) =>
    /\ rxAlt = NeverMatch
    /\ rxChunks = <<NeverMatch>>

\* C10 amended: for the empty set makeAlternation returns "(?!)" and
\* chunkAlternation returns no chunk at all (an empty list).
C10_PlaceholderFromMakeAlternationOnly ==
  (rxpc = "done" /\ rxValues = {}) =>
    /\ rxAlt = NeverMatch
    /\ rxChunks = <<>>

C10_Witness == rxpc = "done" /\ rxValues = {}

\* the nodes of a tree that carry the name, whatever else they carry
RECURSIVE CountNamed(_, _)
CountNamed(list, name) ==
  IF list = <<>> THEN 0
  ELSE (IF Head(list).name = name THEN 1 ELSE 0)
       + CountNamed(Head(list).patterns, name) + CountNamed(Tail(list), name)

\* the nodes of a tree that carry the name together with a match rule
RECURSIVE CountNamedMatchRules(_, _)
CountNamedMatchRules(list, name) ==
  IF list = <<>> THEN 0
  ELSE (IF Head(list).name = name /\ Head(list).match # <<>> THEN 1 ELSE 0)
       + CountNamedMatchRules(Head(list).patterns, name)
       + CountNamedMatchRules(Tail(list), name)

InRepository(Count(_, _), g, name) ==
  Count(g.repository["misc"].patterns, name) + Count(g.repository["types"].patterns, name)

\* C11 as stated: findPatternByName returns the node when exactly one node
\* of the repository tree carries the name, throws "found multiple" when
\* more than one does and "not found" when none does, whatever other fields
\* those nodes have and wherever they sit.
C11_FindByNameCountsEveryNamedNode ==
  fnpc = "returned" =>
    LET n == InRepository(CountNamed, fnIn.grammar, fnIn.name)
    IN /\ n = 1 => (fnOut.status = "found" /\ fnOut.found.name = fnIn.name)
       /\ n > 1 => fnOut.status = "found multiple"
       /\ n = 0 => fnOut.status = "not found"

\* C11 amended: the same three outcomes, counted over the nodes that carry
\* the name together with a match rule; a node that carries the name without
\* a match rule is not counted and is never the node returned.
C11_FindByNameCountsMatchRules ==
  fnpc = "returned" =>
    LET n == InRepository(CountNamedMatchRules, fnIn.grammar, fnIn.name)
    IN /\ n = 1 => /\ fnOut.status = "found"
                   /\ fnOut.found.name = fnIn.name
                   /\ fnOut.found.match # <<>>
       /\ n > 1 => fnOut.status = "found multiple"
       /\ n = 0 => fnOut.status = "not found"

\* one match rule under the name two levels down, next to a begin/end rule
\* of the same name: the match rule is returned
C11_Witness ==
  /\ fnpc = "returned"
  /\ fnIn.name = FunctionReferenceBuiltin
  /\ fnOut.status = "found"
  /\ \E i, j \in DOMAIN fnIn.grammar.repository["misc"].patterns :
       /\ fnIn.grammar.repository["misc"].patterns[i]
            = Group(<<Group(<<Hand(FunctionReferenceBuiltin)>>)>>)
       /\ fnIn.grammar.repository["misc"].patterns[j] = BeginEnd(FunctionReferenceBuiltin)

\* the directories of the tier the precedence rule selects
SelectedTier(a) ==
  IF a.explicitInstallDirs # <<>> THEN Range(a.explicitInstallDirs)
  ELSE IF a.explicitCorePaths # <<>> \/ a.explicitGamePaths # <<>> \/ a.explicitHeaderPaths # <<>>
  THEN {}
  ELSE IF a.envInstallDirs # <<>> THEN Range(a.envInstallDirs)
  ELSE Range(defaultInstallDirs)

ExplicitFiles(a) ==
  Range(a.explicitCorePaths) \cup Range(a.explicitGamePaths) \cup Range(a.explicitHeaderPaths)

ResolvedFiles(r) ==
  Range(r.coreJsonPaths) \cup Range(r.gameJsonPaths) \cup Range(r.headerPaths)

\* C12: resolveSourcePaths scans the existing directories of exactly one tier
\* (explicit directory list, else nothing when explicit files were given,
\* else the environment's directories, else the default home directories);
\* no directory of a lower tier is scanned and no file of one is resolved.
C12_OneTierScanned ==
  fnpc = "returned" =>
    /\ Range(fnOut.resolved.installDirs) = SelectedTier(fnIn.args) \cap fnIn.fs.dirs
    /\ \A p \in ResolvedFiles(fnOut.resolved) :
         p \in ExplicitFiles(fnIn.args) \/ p[1] \in SelectedTier(fnIn.args)

\* explicit files given, no explicit directory, while the environment's and
\* the default directory exist and hold metadata: nothing is scanned
C12_Witness ==
  /\ fnpc = "returned"
  /\ fnIn.args.explicitInstallDirs = <<>>
  /\ fnIn.args.explicitCorePaths # <<>>
  /\ fnIn.args.envInstallDirs # <<>>
  /\ {<<EnvDir, CoreJsonName>>, <<defaultInstallDirs[1], GameJsonName>>} \subseteq fnIn.fs.files
  /\ fnOut.resolved.installDirs = <<>>
  /\ fnOut.resolved.coreJsonPaths = fnIn.args.explicitCorePaths

\* C13: resolveSourcePaths throws whenever the resolved core and
\* per-application lists are both empty, header files or not, and returns
\* only when one of the two lists is non-empty and every resolved file exists.
C13_HeadersNeverSuffice ==
  fnpc = "returned" =>
    LET r == fnOut.resolved
    IN /\ (r.coreJsonPaths = <<>> /\ r.gameJsonPaths = <<>>) => fnOut.error # ""
       /\ fnOut.error = "" =>
            /\ r.coreJsonPaths # <<>> \/ r.gameJsonPaths # <<>>
            /\ ResolvedFiles(r) \subseteq fnIn.fs.files

\* a header found by the scan and one given explicitly, no core and no
\* per-application file: the call throws
C13_Witness ==
  /\ fnpc = "returned"
  /\ Len(fnOut.resolved.headerPaths) = 2
  /\ ResolvedFiles(fnOut.resolved) \subseteq fnIn.fs.files
  /\ fnOut.resolved.coreJsonPaths = <<>>
  /\ fnOut.resolved.gameJsonPaths = <<>>
  /\ fnOut.error = "No Openplanet JSON sources found"

\* C14: whatever sources have been read so far, by whichever reader, the
\* accumulated type set holds no reserved primitive name.
C14_NoPrimitiveInTypes ==
  fnpc \in {"reading", "returned"} => fnOut.out.types \cap primitiveTypes = {}

\* a core class, a per-application class and a header scoped-enum segment
\* named like primitives were all read, next to a class that was kept
C14_Witness ==
  /\ fnpc = "returned"
  /\ \E i \in DOMAIN fnIn.coreJson : Item(NameInt, <<>>) \in Range(fnIn.coreJson[i].classes)
  /\ \E i \in DOMAIN fnIn.gameJson :
       \E j \in DOMAIN fnIn.gameJson[i].ns : NameInt \in Range(fnIn.gameJson[i].ns[j].classes)
  /\ \E i \in DOMAIN fnIn.headers :
       Decl("enum class", CharsOf("UI::array")) \in Range(fnIn.headers[i])
  /\ fnOut.out.types = {TyLabel, NsUI}

\* C15 as stated: every global function is the name of a core function
\* descriptor that carries no namespace tag; a descriptor with a tag of any
\* value, well-formed or not, contributes none, and neither do the
\* per-application and header sources.
C15_GlobalFunctionsOnlyFromUntagged ==
  fnpc = "returned" =>
    \A f \in fnOut.out.globalFunctions :
      \E i \in DOMAIN fnIn.coreJson :
        \E j \in DOMAIN fnIn.coreJson[i].functions :
          /\ fnIn.coreJson[i].functions[j].name = f
          /\ fnIn.coreJson[i].functions[j].ns = <<>>

SubsetOut(a, b) ==
  /\ a.namespaces \subseteq b.namespaces
  /\ a.types \subseteq b.types
  /\ a.globalFunctions \subseteq b.globalFunctions

\* C18: the namespace set collectSymbolsFromSources returns holds Controls,
\* Camera, VehicleState and NadeoServices whatever the sources hold, and
\* reading a source never removes an element from any of the three sets.
C18_AlwaysIncludeAndOnlyAdds ==
  /\ [](fnpc = "returned" => Range(alwaysIncludeNamespaces) \subseteq fnOut.out.namespaces)
  /\ [][(fnpc = "reading" /\ fnpc' \in {"reading", "returned"})
          => SubsetOut(fnOut.out, fnOut'.out)]_vars

\* sources were read and none contributed a symbol
C18_Witness ==
  /\ fnpc = "returned"
  /\ fnOut.read >= 2
  /\ fnOut.out = CollectSeed

\* how often an entry occurs in a list
Occurrences(list, entry) == Cardinality({i \in DOMAIN list : list[i] = entry})

\* C16: the reordering step leaves the "#types" include immediately after
\* the "#functionCalls" include whenever the top-level list holds both,
\* adds, removes and duplicates no entry, keeps the other entries in their
\* relative order, and leaves the list alone when either include is absent.
C16_TypesRightAfterFunctionCalls ==
  [][(gpc = "stabilizeFunctionAndTypeScopes" /\ gpc' = "writeFileSync") =>
       LET before == grammar.patterns
           after == grammar'.patterns
           both == {Include("#types"), Include("#functionCalls")} \subseteq Range(before)
       IN /\ both => \E i \in 1..(Len(after) - 1) :
                       /\ after[i] = Include("#functionCalls")
                       /\ after[i + 1] = Include("#types")
                       /\ \A j \in 1..(i - 1) : after[j] # Include("#functionCalls")
          /\ ~both => after = before
          /\ Len(after) = Len(before)
          /\ \A e \in Range(before) \cup Range(after) :
               Occurrences(after, e) = Occurrences(before, e)
          /\ SelectSeq(after, LAMBDA e : e # Include("#types"))
               = SelectSeq(before, LAMBDA e : e # Include("#types"))]_vars

\* "#types" was ahead of "#functionCalls" with another include between them
\* and has been moved behind it
C16_Witness ==
  /\ gpc = "writeFileSync"
  /\ gFileAtStart.parsable
  /\ gFileAtStart.doc.patterns
       = <<Include("#types"), Include("#comments"), Include("#functionCalls")>>
  /\ grammar.patterns = <<Include("#comments"), Include("#functionCalls"), Include("#types")>>

\* the names whose nodes the run builds itself
GeneratorOwned(name) ==
  \/ name \in {DeepFunctionName, DeepMemberName, OpenplanetTypeName, BuiltinFunctionName}
  \/ startsWith(name, OpenplanetVarPrefix)
  \/ startsWith(name, OpenplanetConstVarPrefix)

\* the names whose nodes get a new match
MatchTargets == Range(NamespaceTargets) \cup {ConstructorCall, TypeIdentifierName}

\* a list with the match of every target node blanked, at every depth
RECURSIVE ModuloTargetMatch(_)
ModuloTargetMatch(list) ==
  [i \in 1..Len(list) |->
     LET node == list[i]
     IN [node EXCEPT !.match = IF node.name \in MatchTargets THEN <<>> ELSE @,
                     !.patterns = ModuloTargetMatch(@)]]

PatchedLists == {"memberAccess", "types", "functionCalls", "declarations"}

\* C17: a successful run changes nothing it does not own: a named target
\* node differs from the one in the input at most in its match, and every
\* list keeps its nodes without a generator-owned name, unmodified and in
\* the same relative order.
C17_OnlyOwnedNodesChange ==
  gpc = "done" =>
    \A k \in DOMAIN gFileAtStart.doc.repository :
      LET before == gFileAtStart.doc.repository[k].patterns
          after == grammar.repository[k].patterns
      IN IF k \in PatchedLists
         THEN ModuloTargetMatch(SelectSeq(after, LAMBDA p : ~GeneratorOwned(p.name)))
                = ModuloTargetMatch(SelectSeq(before, LAMBDA p : ~GeneratorOwned(p.name)))
         ELSE ModuloTargetMatch(after) = ModuloTargetMatch(before)

\* hand-written rules on both sides of a stale generated type node, and the
\* run put fresh type nodes in
C17_Witness ==
  /\ gpc = "done"
  /\ gFileAtStart.doc.repository["types"].patterns
       = <<Hand("storage.type.primitive.angelscript"), Stale(OpenplanetTypeName, ""),
           Hand(TypeReferenceAnchor)>>
  /\ typeChunks # <<>>
  /\ grammar.repository["types"].patterns
       = <<Hand("storage.type.primitive.angelscript")>> \o KnownTypeNodes(typeChunks)
           \o <<Hand(TypeReferenceAnchor)>>
  /\ grammar.repository["misc"].patterns[1].captures = "hand"
  /\ grammar.repository["misc"].patterns[1].match # HandMatch

WatcherIdle == timer # "armed" /\ ~running /\ ~pending

\* C19: in watch mode, while the watcher is not interrupted, every
\* watched-file change is followed by a generator run spawned after it, and
\* once the changes have stopped the watcher settles in the idle state (no
\* timer armed, running false, pending false).
C19_NoChangeLost ==
  /\ \A n \in 0..(2 * MaxChanges + 1) :
       (wpc = "watching" /\ timer = "armed" /\ wSpawned = n)
         ~> (wSpawned > n \/ wpc = "stopped")
  /\ <>[](wpc = "stopped" \/ (wpc # "main" /\ WatcherIdle))

\* a change arrived while a child was in flight, the queued run started
\* after that child's exit and has exited too: the watcher is idle
C19_Witness ==
  /\ wpc = "watching"
  /\ wChanges >= 1
  /\ timer = "fired"
  /\ runReason = "queued change"
  /\ wCoalesced = 0
  /\ wExited = wSpawned
  /\ WatcherIdle

====
